---- MODULE Spec2Model ----
(***************************************************************************)
(* Model of trajectories.py: the parameter check, the minimum-time and     *)
(* trapezoidal planners, the per-DOF planning loop of trapezoidal_profile  *)
(* and the trajectory(_t) evaluator it returns.                            *)
(*                                                                         *)
(* Numbers.  The program computes in IEEE doubles.  The model computes in  *)
(* exact rationals <<n, d>> (d > 0, lowest terms) extended with NaN, the   *)
(* value np.sqrt returns for a negative argument.  NaN propagates through  *)
(* arithmetic and makes every comparison false, as in the program.  The    *)
(* inputs are restricted to those whose discriminant is negative or a      *)
(* perfect square, so that np.sqrt is exact; rounding is not modelled.     *)
(* Zero limits (division by zero) are outside the modelled inputs.         *)
(*                                                                         *)
(* Lists are 1-based here and 0-based in the program.                      *)
(***************************************************************************)
EXTENDS Integers, Sequences, FiniteSets, TLC

\* ------------------------------------------------------------------ bounds
MaxDof == 2
MaxDist == 4
MaxVel == 2
MaxAcc == 2
MaxQuery == 4

\* --------------------------------------------------------- module constants
ACCELERATION_ID == 0
SPEED_ID == 1
POSITION_ID == 2

\* ------------------------------------------------------- float arithmetic
NaN == <<0, 0>>

IsNaN(a) == a[2] = 0

Abs(n) == IF n < 0 THEN -n ELSE n

RECURSIVE GCD(_, _)
GCD(m, n) == IF n = 0 THEN m ELSE GCD(n, m % n)

Norm(n, d) ==
    IF d = 0 THEN NaN
    ELSE LET g == GCD(Abs(n), Abs(d))
             s == IF d < 0 THEN -1 ELSE 1
         IN  <<(s * n) \div g, (s * d) \div g>>

R(n) == <<n, 1>>

Half == <<1, 2>>

Add(a, b) == IF IsNaN(a) \/ IsNaN(b) THEN NaN
             ELSE Norm(a[1] * b[2] + b[1] * a[2], a[2] * b[2])

Neg(a) == IF IsNaN(a) THEN NaN ELSE <<-a[1], a[2]>>

Sub(a, b) == Add(a, Neg(b))

Mul(a, b) == IF IsNaN(a) \/ IsNaN(b) THEN NaN
             ELSE Norm(a[1] * b[1], a[2] * b[2])

Div(a, b) == IF IsNaN(a) \/ IsNaN(b) THEN NaN
             ELSE Norm(a[1] * b[2], a[2] * b[1])

Sq(a) == Mul(a, a)

\* comparisons: false as soon as one side is NaN
Lt(a, b) == ~IsNaN(a) /\ ~IsNaN(b) /\ a[1] * b[2] < b[1] * a[2]

Le(a, b) == ~IsNaN(a) /\ ~IsNaN(b) /\ a[1] * b[2] <= b[1] * a[2]

Gt(a, b) == Lt(b, a)

Ge(a, b) == Le(b, a)

Eq(a, b) == ~IsNaN(a) /\ ~IsNaN(b) /\ a = b

\* Python's max(a, b): keeps a unless b > a
Max(a, b) == IF Gt(b, a) THEN b ELSE a

IsSquare(n) == \E s \in 0..n : s * s = n

ISqrt(n) == CHOOSE s \in 0..n : s * s = n

\* np.sqrt: nan below zero; exact on the squares the inputs are restricted to
Sqrt(a) ==
    IF IsNaN(a) \/ a[1] < 0 THEN NaN
    ELSE <<ISqrt(a[1]), ISqrt(a[2])>>

HasExactSqrt(a) == IsNaN(a) \/ a[1] < 0 \/ (IsSquare(a[1]) /\ IsSquare(a[2]))

\* ----------------------------------------------------------------- planners
\* a planner's outcome: the six parameters, or the PlanningError it raises
Params(t, ta, tc, sa, sc, vc) ==
    [ok |-> TRUE, t |-> t, ta |-> ta, tc |-> tc, sa |-> sa, sc |-> sc, vc |-> vc]

PlanningError == [ok |-> FALSE]

\* trapezoidal_planner with the ramp length computed without the halving
trapezoidal_planner_full_ramp(x, y, v0, a0, v_max, a_max) ==
    LET ta == Div(Sub(v_max, v0), a_max)
        sa == Add(Mul(a_max, Sq(ta)), Mul(v0, ta))
    IN  IF Lt(Sub(y, x), Mul(R(2), sa))
        THEN PlanningError
        ELSE LET t == Add(Div(Sub(Sub(Sub(y, x), Mul(a_max, Sq(ta))),
                                  Mul(Mul(R(2), v0), ta)), v_max),
                          Mul(R(2), ta))
                 tc == Sub(t, Mul(R(2), ta))
                 sc == Add(Mul(tc, v_max), R(0))
                 vc == v_max
             IN  Params(t, ta, tc, sa, sc, vc)

trapezoidal_planner(x, y, v0, a0, v_max, a_max) ==
    LET ta == Div(Sub(v_max, v0), a_max)
        sa == Add(Div(Mul(a_max, Sq(ta)), R(2)), Mul(v0, ta))
    IN  IF Lt(Sub(y, x), Mul(R(2), sa))
        THEN PlanningError
        ELSE LET t == Add(Div(Sub(Sub(Sub(y, x), Mul(a_max, Sq(ta))),
                                  Mul(Mul(R(2), v0), ta)), v_max),
                          Mul(R(2), ta))
                 tc == Sub(t, Mul(R(2), ta))
                 sc == Add(Mul(tc, v_max), R(0))
                 vc == v_max
             IN  Params(t, ta, tc, sa, sc, vc)

Discriminant(x, y, v0, a_max) == Add(Sq(v0), Mul(Sub(y, x), a_max))

minimum_time_planner(x, y, v0, a0, v_max, a_max) ==
    LET a == a_max
        D == Sqrt(Discriminant(x, y, v0, a_max))
        denom == Div(a_max, R(2))
        t1 == Div(Add(Neg(v0), D), denom)
        t2 == Div(Sub(Neg(v0), D), denom)
        t == Max(t1, t2)
        ta == Mul(Half, t)
        tc == R(0)
        sa == Add(Mul(v0, ta), Div(Mul(a, Sq(ta)), R(2)))
        sc == R(0)
        _v_max == Add(v0, Mul(a, ta))
    IN  IF Gt(_v_max, v_max)
        THEN PlanningError
        ELSE Params(t, ta, tc, sa, sc, _v_max)

\* ---------------------------------------------------------- parameter check
\* a Python value that is a list, or None
List(s) == [none |-> FALSE, items |-> s]

None == [none |-> TRUE, items |-> <<>>]

MsgSpecifyLimit == "Please specify either a_max or v_max"

MsgDimensions == "Number of dimentions in parameters does not match"

MsgNoLen == "object of type 'NoneType' has no len()"

MsgTrapezoidal == "Failed to plan trapezoidal profile"

MsgNegativeTime == "Time must be positive number"

MsgTimeExceeds == "Time exceeds limit"

NoError == [kind |-> "none", msg |-> ""]

Raise(kind, msg) == [kind |-> kind, msg |-> msg]

\* len(l0) == len(l1) == ... : evaluated left to right, stopping at the first
\* unequal pair; len(None) raises TypeError when it is reached
RECURSIVE LenChain(_, _)
LenChain(ls, k) ==
    IF ls[k].none THEN "TypeError"
    ELSE IF k = Len(ls) THEN "equal"
    ELSE IF ls[k + 1].none THEN "TypeError"
    ELSE IF Len(ls[k].items) # Len(ls[k + 1].items) THEN "unequal"
    ELSE LenChain(ls, k + 1)

\* outcome of check_profile_params: the error raised, and dof when none is
check_profile_params(x, y, v0, a0, a_max, v_max) ==
    IF a_max.none /\ v_max.none
    THEN [exc |-> Raise("ValueError", MsgSpecifyLimit), dof |-> 0]
    ELSE LET res == LenChain(<<x, y, v0, a0, a_max, v_max>>, 1)
         IN  IF res = "TypeError"
             THEN [exc |-> Raise("TypeError", MsgNoLen), dof |-> 0]
             ELSE IF res # "equal"
             THEN [exc |-> Raise("ValueError", MsgDimensions), dof |-> 0]
             ELSE [exc |-> NoError, dof |-> Len(x.items)]

\* ------------------------------------------------------- one loop iteration
\* plan_dof without the except clause: the minimum-time planner's error leaves
plan_dof_no_fallback(x, y, v0, a0, v_max, a_max) ==
    LET first == minimum_time_planner(x, y, v0, a0, v_max, a_max)
    IN  [params |-> first,
         called |-> <<[planner |-> "minimum_time_planner", ok |-> first.ok]>>]

\* the try/except of trapezoidal_profile for one DOF: the planners called, in
\* order, with their outcomes, and the parameters kept (or the PlanningError
\* of the trapezoidal planner, which nothing catches)
plan_dof(x, y, v0, a0, v_max, a_max) ==
    LET first == minimum_time_planner(x, y, v0, a0, v_max, a_max)
    IN  IF first.ok
        THEN [params |-> first,
              called |-> <<[planner |-> "minimum_time_planner", ok |-> TRUE]>>]
        ELSE LET second == trapezoidal_planner(x, y, v0, a0, v_max, a_max)
             IN  [params |-> second,
                  called |-> <<[planner |-> "minimum_time_planner", ok |-> FALSE],
                               [planner |-> "trapezoidal_planner", ok |-> second.ok]>>]

\* ------------------------------------------------------------------ evaluator
\* Branch with the acceleration arm exclusive of _t = ta
Branch_cruise_at_ta(_t, t, ta, tc) ==
    IF Eq(_t, R(0)) THEN "start"
    ELSE IF Lt(R(0), _t) /\ Lt(_t, ta) THEN "accel"
    ELSE IF Le(ta, _t) /\ Lt(_t, Add(ta, tc)) THEN "cruise"
    ELSE IF Le(Add(ta, tc), _t) /\ Lt(_t, t) THEN "decel"
    ELSE IF Ge(_t, t) THEN "end"
    ELSE "else"

\* which arm of the if/elif chain of trajectory(_t) is taken for one DOF
Branch(_t, t, ta, tc) ==
    IF Eq(_t, R(0)) THEN "start"
    ELSE IF Lt(R(0), _t) /\ Le(_t, ta) THEN "accel"
    ELSE IF Le(ta, _t) /\ Lt(_t, Add(ta, tc)) THEN "cruise"
    ELSE IF Le(Add(ta, tc), _t) /\ Lt(_t, t) THEN "decel"
    ELSE IF Ge(_t, t) THEN "end"
    ELSE "else"

\* the formulas of the three moving segments, as the code writes them
AccelRow(_t, x, v0, a_max) ==
    <<a_max,
      Add(Mul(a_max, _t), v0),
      Add(Add(x, Div(Mul(a_max, Sq(_t)), R(2))), Mul(v0, _t))>>

CruiseRow(_t, x, v_max, ta, sa, vc) ==
    <<R(0),
      v_max,
      Add(Add(x, sa), Mul(vc, Sub(_t, ta)))>>

DecelRow(_t, x, a_max, ta, tc, sa, sc, vc) ==
    LET dt == Sub(Sub(_t, ta), tc)
    IN  <<Neg(a_max),
          Sub(vc, Mul(a_max, dt)),
          Add(Sub(Add(Add(x, sa), sc), Div(Mul(a_max, Sq(dt)), R(2))),
              Mul(vc, dt))>>

\* point[i] for one DOF (indexed ACCELERATION_ID+1, SPEED_ID+1, POSITION_ID+1)
Row(_t, x, y, v0, a0, v_max, a_max, t, ta, tc, sa, sc, vc) ==
    LET b == Branch(_t, t, ta, tc)
    IN  IF b = "start" THEN <<a0, v0, x>>
        ELSE IF b = "accel" THEN AccelRow(_t, x, v0, a_max)
        ELSE IF b = "cruise" THEN CruiseRow(_t, x, v_max, ta, sa, vc)
        ELSE IF b = "decel" THEN DecelRow(_t, x, a_max, ta, tc, sa, sc, vc)
        ELSE <<a0, v0, y>>

\* the closure trajectory(_t) over the captured lists
trajectory(_t, dof, x, y, v0, a0, v_max, a_max, T, TA, TC, SA, SC, VC) ==
    IF Lt(_t, R(0))
    THEN [exc |-> Raise("ValueError", MsgNegativeTime), point |-> <<>>]
    ELSE IF \E i \in 1..dof : Branch(_t, T[i], TA[i], TC[i]) = "else"
    THEN [exc |-> Raise("ValueError", MsgTimeExceeds), point |-> <<>>]
    ELSE [exc |-> NoError,
          point |-> [i \in 1..dof |->
                        Row(_t, x[i], y[i], v0[i], a0[i], v_max[i], a_max[i],
                            T[i], TA[i], TC[i], SA[i], SC[i], VC[i])]]

\* --------------------------------------------------------------------- state
VARIABLES
    x, y, v0, a0, v_max, a_max,   \* the arguments of trapezoidal_profile
    pc,                           \* "check", "loop", "returned" or "raised"
    dof, i,                       \* locals of trapezoidal_profile
    T, TA, TC, SA, SC, VC,        \* trajectory_params
    planner_calls,                \* per DOF, the planners called and their outcomes
    exc,                          \* the exception trapezoidal_profile raised
    result,                       \* what trapezoidal_profile returned
    query, out                    \* the last trajectory(_t) call and its outcome

vars == <<x, y, v0, a0, v_max, a_max, pc, dof, i, T, TA, TC, SA, SC, VC,
          planner_calls, exc, result, query, out>>

args == <<x, y, v0, a0, v_max, a_max>>

lists == <<T, TA, TC, SA, SC, VC>>

NoResult == [returned |-> FALSE, dof |-> 0, T |-> <<>>]

NoOutput == [exc |-> Raise("unset", ""), point |-> <<>>]

\* -------------------------------------------------------------------- inputs
StartVals == {0, 1}

A0Vals == {0, 1}

VMaxVals == {-1} \cup (1..MaxVel)

AxisSpecs ==
    {s \in [x : StartVals, d : (-MaxDist)..MaxDist, v0 : (-MaxVel)..MaxVel,
            a0 : A0Vals, v_max : VMaxVals, a_max : 1..MaxAcc] :
        HasExactSqrt(R(s.v0 * s.v0 + s.d * s.a_max))}

\* one spec per planner outcome: triangular, trapezoidal, nan, infeasible
Companions ==
    { [x |-> 0, d |-> 2, v0 |-> 0, a0 |-> 0, v_max |-> 2, a_max |-> 2],
      [x |-> 1, d |-> 4, v0 |-> 0, a0 |-> 1, v_max |-> 1, a_max |-> 1],
      [x |-> 0, d |-> -1, v0 |-> 0, a0 |-> 0, v_max |-> 1, a_max |-> 1],
      [x |-> 0, d |-> 0, v0 |-> 0, a0 |-> 0, v_max |-> -1, a_max |-> 1] }

CompanionLists == UNION {[1..n -> Companions] : n \in 0..MaxDof}

\* one DOF over the whole bounded domain, or up to MaxDof representative DOFs
SpecLists == {<<s>> : s \in AxisSpecs} \cup CompanionLists

ListNames == {"x", "y", "v0", "a0", "v_max", "a_max"}

Field(s, name) ==
    CASE name = "x" -> R(s.x)
      [] name = "y" -> R(s.x + s.d)
      [] name = "v0" -> R(s.v0)
      [] name = "a0" -> R(s.a0)
      [] name = "v_max" -> R(s.v_max)
      [] name = "a_max" -> R(s.a_max)

\* the argument `name` of a call: None, or the column of the specs, one short
Arg(specs, name, short, nones) ==
    IF name \in nones THEN None
    ELSE LET n == IF name = short THEN Len(specs) - 1 ELSE Len(specs)
         IN  List([k \in 1..n |-> Field(specs[k], name)])

Init ==
    /\ \E specs \in SpecLists, short \in ListNames \cup {"-"},
          nones \in SUBSET {"v_max", "a_max"} :
          /\ (short # "-" \/ nones # {}) => specs \in CompanionLists
          /\ short # "-" => Len(specs) > 0
          /\ x = Arg(specs, "x", short, nones)
          /\ y = Arg(specs, "y", short, nones)
          /\ v0 = Arg(specs, "v0", short, nones)
          /\ a0 = Arg(specs, "a0", short, nones)
          /\ v_max = Arg(specs, "v_max", short, nones)
          /\ a_max = Arg(specs, "a_max", short, nones)
    /\ pc = "check"
    /\ dof = 0
    /\ i = 1
    /\ T = <<>> /\ TA = <<>> /\ TC = <<>> /\ SA = <<>> /\ SC = <<>> /\ VC = <<>>
    /\ planner_calls = <<>>
    /\ exc = NoError
    /\ result = NoResult
    /\ query = R(0)
    /\ out = NoOutput

\* ------------------------------------------------------------------- actions
\* dof = check_profile_params(x, y, v0, a0, v_max, a_max)
Check ==
    /\ pc = "check"
    /\ LET r == check_profile_params(x, y, v0, a0, v_max, a_max)
       IN  /\ exc' = r.exc
           /\ dof' = r.dof
           /\ pc' = IF r.exc = NoError THEN "loop" ELSE "raised"
    /\ UNCHANGED <<args, i, lists, planner_calls, result, query, out>>

\* one iteration of `for i in range(dof)`
PlanDof ==
    /\ pc = "loop"
    /\ i <= dof
    /\ LET p == plan_dof(x.items[i], y.items[i], v0.items[i], a0.items[i],
                         v_max.items[i], a_max.items[i])
       IN  /\ planner_calls' = Append(planner_calls, p.called)
           /\ IF p.params.ok
              THEN /\ T' = Append(T, p.params.t)
                   /\ TA' = Append(TA, p.params.ta)
                   /\ TC' = Append(TC, p.params.tc)
                   /\ SA' = Append(SA, p.params.sa)
                   /\ SC' = Append(SC, p.params.sc)
                   /\ VC' = Append(VC, p.params.vc)
                   /\ i' = i + 1
                   /\ UNCHANGED <<pc, exc>>
              ELSE /\ pc' = "raised"
                   /\ exc' = Raise("PlanningError", MsgTrapezoidal)
                   /\ UNCHANGED <<i, lists>>
    /\ UNCHANGED <<args, dof, result, query, out>>

\* return dof, T, trajectory
Return ==
    /\ pc = "loop"
    /\ i > dof
    /\ pc' = "returned"
    /\ result' = [returned |-> TRUE, dof |-> dof, T |-> T]
    /\ UNCHANGED <<args, dof, i, lists, planner_calls, exc, query, out>>

QueryTimes ==
    {R(-1)} \cup {Norm(k, 2) : k \in 0..MaxQuery}
    \cup {T[k] : k \in 1..Len(T)}
    \cup {TA[k] : k \in 1..Len(T)}
    \cup {Add(TA[k], TC[k]) : k \in 1..Len(T)}
    \cup {Add(T[k], R(1)) : k \in 1..Len(T)}

\* the caller evaluates the returned closure at some time
Query ==
    /\ pc = "returned"
    /\ \E q \in QueryTimes :
          /\ query' = q
          /\ out' = trajectory(q, dof, x.items, y.items, v0.items, a0.items,
                               v_max.items, a_max.items, T, TA, TC, SA, SC, VC)
    /\ UNCHANGED <<args, pc, dof, i, lists, planner_calls, exc, result>>

Next == Check \/ PlanDof \/ Return \/ Query

Spec == Init /\ [][Next]_vars

\* ------------------------------------------------------------------- helpers
Planning == pc \in {"loop", "returned"}

Evaluated == pc = "returned" /\ out # NoOutput

\* DOF k has positive limits, the documented domain of an AxisSpec
LimitsOk(k) == Gt(v_max.items[k], R(0)) /\ Gt(a_max.items[k], R(0))

Start(k) == <<a0.items[k], v0.items[k], x.items[k]>>

Goal(k) == <<a0.items[k], v0.items[k], y.items[k]>>

MinimumTimeOf(k) ==
    minimum_time_planner(x.items[k], y.items[k], v0.items[k], a0.items[k],
                         v_max.items[k], a_max.items[k])

TrapezoidalOf(k) ==
    trapezoidal_planner(x.items[k], y.items[k], v0.items[k], a0.items[k],
                        v_max.items[k], a_max.items[k])

BranchOf(k) == Branch(query, T[k], TA[k], TC[k])

PlanningErrorRaised == pc = "raised" /\ exc.kind = "PlanningError"

\* -------------------------------------------------------------------- claims

\* C1: for every planned DOF with vMax > 0 and aMax > 0, trajectory(0) returns
\* (a0, v0, x0) and trajectory(T[k]) returns (a0, v0, x1) for that DOF.
C1_EndpointsReproduced ==
    Evaluated =>
        \A k \in 1..dof :
            LimitsOk(k) =>
                /\ query = R(0) =>
                      out.exc = NoError /\ out.point[k] = Start(k)
                /\ query = T[k] =>
                      out.exc = NoError /\ out.point[k] = Goal(k)

\* C2: per DOF, in input order, minimum_time_planner is called first and
\* trapezoidal_planner is called (once, on the same arguments) exactly when
\* it failed; the parameters kept are those of the planner that succeeded;
\* the only PlanningError that leaves trapezoidal_profile is the trapezoidal
\* planner's, and then nothing is returned and nothing can be evaluated.
C2_FallbackOrder ==
    (Planning \/ PlanningErrorRaised) =>
        /\ Len(planner_calls) = IF PlanningErrorRaised THEN i ELSE i - 1
        /\ Len(T) = i - 1
        /\ \A k \in 1..Len(planner_calls) :
              LET m == MinimumTimeOf(k)
                  z == TrapezoidalOf(k)
              IN  /\ planner_calls[k] =
                        IF m.ok
                        THEN <<[planner |-> "minimum_time_planner", ok |-> TRUE]>>
                        ELSE <<[planner |-> "minimum_time_planner", ok |-> FALSE],
                               [planner |-> "trapezoidal_planner", ok |-> z.ok]>>
                  /\ k <= Len(T) =>
                        LET p == IF m.ok THEN m ELSE z
                        IN  /\ p.ok
                            /\ <<T[k], TA[k], TC[k], SA[k], SC[k], VC[k]>>
                                 = <<p.t, p.ta, p.tc, p.sa, p.sc, p.vc>>
        /\ PlanningErrorRaised =>
              /\ exc.msg = MsgTrapezoidal
              /\ ~MinimumTimeOf(i).ok /\ ~TrapezoidalOf(i).ok
              /\ result = NoResult
              /\ out = NoOutput
              /\ ~ENABLED Query
        /\ Planning => exc = NoError
        /\ pc = "returned" => result = [returned |-> TRUE, dof |-> dof, T |-> T]
                              /\ Len(T) = dof

\* C2 witness: a later DOF's fallback failed after an earlier DOF was planned
C2_Witness ==
    /\ PlanningErrorRaised
    /\ Len(T) >= 1
    /\ Len(planner_calls[i]) = 2

\* C3: for every planned DOF with positive limits, velocity and position agree
\* at _t = ta between the acceleration and cruise formulas, at _t = ta + tc
\* between the cruise and deceleration formulas, and at _t = t the
\* deceleration formulas give v0 and x1.
C3_Continuous ==
    pc = "returned" =>
        \A k \in 1..dof :
            LimitsOk(k) =>
                LET acc == AccelRow(TA[k], x.items[k], v0.items[k], a_max.items[k])
                    cr1 == CruiseRow(TA[k], x.items[k], v_max.items[k],
                                     TA[k], SA[k], VC[k])
                    cr2 == CruiseRow(Add(TA[k], TC[k]), x.items[k], v_max.items[k],
                                     TA[k], SA[k], VC[k])
                    de2 == DecelRow(Add(TA[k], TC[k]), x.items[k], a_max.items[k],
                                    TA[k], TC[k], SA[k], SC[k], VC[k])
                    de3 == DecelRow(T[k], x.items[k], a_max.items[k],
                                    TA[k], TC[k], SA[k], SC[k], VC[k])
                IN  /\ Eq(acc[2], cr1[2]) /\ Eq(acc[3], cr1[3])
                    /\ Eq(cr2[2], de2[2]) /\ Eq(cr2[3], de2[3])
                    /\ Eq(de3[2], v0.items[k]) /\ Eq(de3[3], y.items[k])

C5_DurationInvariant ==
    Planning =>
        \A k \in 1..Len(T) :
            LimitsOk(k) =>
                /\ Eq(T[k], Add(Mul(R(2), TA[k]), TC[k]))
                /\ Ge(T[k], R(0))

\* the plan of DOF k's spec with its travel distance replaced by d
WithDistance(k, d) ==
    plan_dof(x.items[k], Add(x.items[k], R(d)), v0.items[k], a0.items[k],
             v_max.items[k], a_max.items[k]).params

DistanceOf(k) == Sub(y.items[k], x.items[k])

\* C6: for a planned DOF with positive limits and any spec that differs only
\* by a longer (or equal) travel distance and also plans, the planned
\* duration is not longer than the other spec's.
C6_Monotone ==
    Planning =>
        \A k \in 1..Len(T) :
            LimitsOk(k) =>
                \A d \in (-MaxDist)..MaxDist :
                    (/\ Le(DistanceOf(k), R(d))
                     /\ HasExactSqrt(Discriminant(R(0), R(d), v0.items[k],
                                                  a_max.items[k]))
                     /\ WithDistance(k, d).ok)
                    => Le(T[k], WithDistance(k, d).t)

\* the lengths of the arguments that were supplied (are not None)
SuppliedLens == {Len(l.items) : l \in {l \in {x, y, v0, a0, v_max, a_max} : ~l.none}}

\* C7: the check has three outcomes: MissingLimit when neither limit is given,
\* InvalidParameters when the lengths differ, and otherwise dof = the common
\* length; when it fails no planner runs.
C7_ValidatorOutcomes ==
    pc # "check" =>
        IF a_max.none /\ v_max.none
        THEN pc = "raised" /\ exc = Raise("ValueError", MsgSpecifyLimit)
             /\ planner_calls = <<>>
        ELSE IF Cardinality(SuppliedLens) > 1
        THEN pc = "raised" /\ exc = Raise("ValueError", MsgDimensions)
             /\ planner_calls = <<>>
        ELSE /\ dof = Len(x.items)
             /\ exc.kind \in {"none", "PlanningError"}

\* C8: trajectory(_t) raises NegativeTime for _t < 0; for _t >= 0 it returns a
\* row per DOF, no DOF falls through to the final else, and every _t >= t
\* yields (a0, v0, x1).
C8_EvaluatorTotal ==
    (Evaluated /\ \A k \in 1..dof : LimitsOk(k)) =>
        /\ Lt(query, R(0)) => out.exc = Raise("ValueError", MsgNegativeTime)
        /\ Ge(query, R(0)) =>
              /\ out.exc = NoError
              /\ \A k \in 1..dof :
                    /\ BranchOf(k) # "else"
                    /\ Ge(query, T[k]) => out.point[k] = Goal(k)

\* the same query on the closure of a call planning DOF k alone
Alone(k) ==
    LET p == plan_dof(x.items[k], y.items[k], v0.items[k], a0.items[k],
                      v_max.items[k], a_max.items[k]).params
    IN  [T |-> p.t,
         out |-> trajectory(query, 1, <<x.items[k]>>, <<y.items[k]>>,
                            <<v0.items[k]>>, <<a0.items[k]>>, <<v_max.items[k]>>,
                            <<a_max.items[k]>>, <<p.t>>, <<p.ta>>, <<p.tc>>,
                            <<p.sa>>, <<p.sc>>, <<p.vc>>)]

\* C9: the duration and, at every _t >= 0, the row of a DOF are those of a
\* call that plans this DOF's spec alone, whatever the other DOFs are.
C9_Independent ==
    (Evaluated /\ Ge(query, R(0)) /\ \A k \in 1..dof : LimitsOk(k)) =>
        \A k \in 1..dof :
            /\ T[k] = Alone(k).T
            /\ out.exc = Alone(k).out.exc
            /\ out.exc = NoError => out.point[k] = Alone(k).out.point[1]

\* DOF k is within the precondition of C10
RealRoot(k) ==
    /\ LimitsOk(k)
    /\ Ge(Discriminant(x.items[k], y.items[k], v0.items[k], a_max.items[k]), R(0))

====
